---- MODULE Spec2Model ----
(***************************************************************************)
(* Model of obscli's reconcile command (cmd/reconcile.go, cmd/root.go).    *)
(*                                                                         *)
(* Three specifications share the module:                                  *)
(*   Spec     the reconcile run: configuration, manifest loop, the remote  *)
(*            build service, printed lines and the process exit status;    *)
(*   FairSpec Spec with weak fairness of the steps of the process;         *)
(*   CmpSpec  the pure comparison compareProjects applied to every pair    *)
(*            of bounded projects.                                         *)
(***************************************************************************)
EXTENDS Integers, Sequences, FiniteSets

(***************************************************************************)
(* Bounds                                                                  *)
(***************************************************************************)
\* CmpSpec: the largest number of list elements (persons + repositories +
\* architectures) of one project.
MaxSize == 2

\* Spec: the largest number of projects in a manifest.
MaxProjects == 2

(***************************************************************************)
(* Data: obs.Project, obs.Person, obs.Repository                           *)
(***************************************************************************)
Names == {"foo", "bar"}
Titles == {"T", "Old"}
Descriptions == {"D", "D2"}
URLs == {"U", "U2"}
UserIDs == {"alice", "bob"}
Roles == {"maintainer", "reviewer"}
RepoNames == {"standard", "devel"}
Archs == {"x86_64", "aarch64"}

SeqsUpTo(S, n) == UNION {[1..k -> S] : k \in 0..n}

SeqsOfLen(S, k) == [1..k -> S]

Person == [UserID : UserIDs, Role : Roles]

Repository(n) == [Repository : RepoNames, Architectures : SeqsUpTo(Archs, n)]

RECURSIVE ReposSize(_)
ReposSize(rs) ==
    IF rs = <<>> THEN 0
    ELSE 1 + Len(Head(rs).Architectures) + ReposSize(Tail(rs))

\* The repository lists with at most b elements (repositories plus their
\* architectures).
RepoListsWithin(b) ==
    IF b = 0 THEN {<<>>}
    ELSE {rs \in SeqsUpTo(Repository(b - 1), b) : ReposSize(rs) <= b}

\* The (persons, repositories) pairs with at most MaxSize elements in all.
ListPairs ==
    UNION {SeqsOfLen(Person, np) \X RepoListsWithin(MaxSize - np) : np \in 0..MaxSize}

Project(name, title, desc, url, persons, repos) ==
    [Name |-> name, Title |-> title, Description |-> desc, URL |-> url,
     Persons |-> persons, Repositories |-> repos]

\* The local projects of CmpSpec: the scalar fields are fixed, the lists are
\* every pair within the bound.
CmpLocals == {Project("foo", "T", "D", "U", lp[1], lp[2]) : lp \in ListPairs}

\* The remote projects of CmpSpec: every scalar takes the local value or
\* another one, the lists are every pair within the bound.
CmpRemotes ==
    {Project(n, t, d, u, lp[1], lp[2]) :
        n \in Names, t \in Titles, d \in Descriptions, u \in URLs, lp \in ListPairs}

(***************************************************************************)
(* compareArchitectures, compareRepositories, comparePersons,              *)
(* compareProjects: the loops of the source as recursion on the index.     *)
(* The three list comparisons return TRUE when the lists are equal;        *)
(* compareProjects returns TRUE when the projects are DIFFERENT.           *)
(***************************************************************************)
RECURSIVE compareArchitecturesFrom(_, _, _)
compareArchitecturesFrom(localArchs, remoteArchs, i) ==
    IF i > Len(localArchs) THEN TRUE
    ELSE IF localArchs[i] # remoteArchs[i] THEN FALSE
    ELSE compareArchitecturesFrom(localArchs, remoteArchs, i + 1)

compareArchitectures(localArchs, remoteArchs) ==
    IF Len(localArchs) # Len(remoteArchs) THEN FALSE
    ELSE compareArchitecturesFrom(localArchs, remoteArchs, 1)

RECURSIVE compareRepositoriesFrom(_, _, _)
compareRepositoriesFrom(localRepos, remoteRepos, i) ==
    IF i > Len(localRepos) THEN TRUE
    ELSE IF \/ localRepos[i].Repository # remoteRepos[i].Repository
            \/ ~compareArchitectures(localRepos[i].Architectures,
                                     remoteRepos[i].Architectures)
         THEN FALSE
    ELSE compareRepositoriesFrom(localRepos, remoteRepos, i + 1)

\* Mutant: the length check lets a shorter local list through.
compareRepositoriesPrefix(localRepos, remoteRepos) ==
    IF Len(localRepos) > Len(remoteRepos) THEN FALSE
    ELSE compareRepositoriesFrom(localRepos, remoteRepos, 1)

compareRepositories(localRepos, remoteRepos) ==
    IF Len(localRepos) # Len(remoteRepos) THEN FALSE
    ELSE compareRepositoriesFrom(localRepos, remoteRepos, 1)

RECURSIVE comparePersonsFrom(_, _, _)
comparePersonsFrom(localPersons, remotePersons, i) ==
    IF i > Len(localPersons) THEN TRUE
    ELSE IF \/ localPersons[i].UserID # remotePersons[i].UserID
            \/ localPersons[i].Role # remotePersons[i].Role
         THEN FALSE
    ELSE comparePersonsFrom(localPersons, remotePersons, i + 1)

\* Mutant: the persons are compared as sets, whatever their order.
comparePersonsUnordered(localPersons, remotePersons) ==
    IF Len(localPersons) # Len(remotePersons) THEN FALSE
    ELSE /\ \A i \in 1..Len(localPersons) :
              \E j \in 1..Len(remotePersons) : localPersons[i] = remotePersons[j]
         /\ \A j \in 1..Len(remotePersons) :
              \E i \in 1..Len(localPersons) : localPersons[i] = remotePersons[j]

comparePersons(localPersons, remotePersons) ==
    IF Len(localPersons) # Len(remotePersons) THEN FALSE
    ELSE comparePersonsFrom(localPersons, remotePersons, 1)

\* Mutant: the result is inverted (TRUE for equal projects).
compareProjectsInverted(local, remote) ==
    ~(\/ local.Name # remote.Name
      \/ local.Title # remote.Title
      \/ local.Description # remote.Description
      \/ local.URL # remote.URL
      \/ ~comparePersons(local.Persons, remote.Persons)
      \/ ~compareRepositories(local.Repositories, remote.Repositories))

compareProjects(local, remote) ==
    IF \/ local.Name # remote.Name
       \/ local.Title # remote.Title
       \/ local.Description # remote.Description
       \/ local.URL # remote.URL
       \/ ~comparePersons(local.Persons, remote.Persons)
       \/ ~compareRepositories(local.Repositories, remote.Repositories)
    THEN TRUE
    ELSE FALSE

(***************************************************************************)
(* The reconcile run                                                       *)
(***************************************************************************)
VARIABLES
    config,     \* the environment and command line of the process
    manifest,   \* prjs.Projects: what LoadManifest yields when it succeeds
    store,      \* the remote build service: project name -> project or Absent
    pc,         \* position of the process
    i,          \* index of the loop over prjs.Projects (1-based)
    remotePrj,  \* the result of GetProjectMetaFile in the current iteration
    events,     \* this run's remote calls and printed lines, in order
    cmdErr,     \* the error rootCmd.Execute returns
    exitCode,   \* the exit status of the process
    clean,      \* history: no fetch and no upsert of this run has failed
    prevRun,    \* history: the previous run over this manifest: "none",
                \* "failed", or without any failure "updated" / "unchanged"
    cmpLocal,   \* CmpSpec: the local argument of compareProjects
    cmpRemote,  \* CmpSpec: the remote argument of compareProjects
    cmpPc,      \* CmpSpec: "input" before the call, "done" after it
    different   \* CmpSpec: the result of compareProjects

vars == <<config, manifest, store, pc, i, remotePrj, events, cmdErr, exitCode,
          clean, prevRun, cmpLocal, cmpRemote, cmpPc, different>>

runVars == <<config, manifest, store, pc, i, remotePrj, events, cmdErr, exitCode,
             clean, prevRun>>

cmpVars == <<cmpLocal, cmpRemote, cmpPc, different>>

\* An optional value is a sequence of length 0 or 1: a nil *obs.Project, a
\* project the service does not hold, an exit status not yet set.
None == <<>>
Some(x) == <<x>>
NoErr == "nil"

\* The configurations of a run: everything present, a credential variable
\* unset, the required flag not given, the manifest file missing, the
\* manifest unreadable, the manifest not valid YAML.
Configs == {"ok", "no_username", "no_password", "no_flag", "no_file",
            "unreadable", "malformed"}

alice == [UserID |-> "alice", Role |-> "maintainer"]
bob == [UserID |-> "bob", Role |-> "reviewer"]
standard == [Repository |-> "standard", Architectures |-> <<"x86_64">>]

\* The projects of the run: for each name the project of the scenarios, the
\* same with an older title, and the same with the persons in the other order.
Variants(name) ==
    {Project(name, "T", "D", "U", <<alice, bob>>, <<standard>>),
     Project(name, "Old", "D", "U", <<alice, bob>>, <<standard>>),
     Project(name, "T", "D", "U", <<bob, alice>>, <<standard>>)}

RunProjects == UNION {Variants(n) : n \in Names}

Manifests == SeqsUpTo(RunProjects, MaxProjects)

\* The remote service holds, under each name, no project or one of that name.
Stores == {s \in [Names -> {None} \cup {Some(p) : p \in RunProjects}] :
              \A n \in Names : s[n] # None => s[n][1].Name = n}

NotFound == "404 project not found"
Refused == "connection refused"

\* The remote calls and the printed lines. A line is the format string of
\* the Printf call and its arguments; idx is the loop index it was made in.
FetchCall(idx, name, result, err) ==
    [kind |-> "fetch", idx |-> idx, name |-> name, result |-> result, err |-> err]
UpsertCall(idx, prj, err) == [kind |-> "upsert", idx |-> idx, project |-> prj, err |-> err]
Line(idx, fmt, args) == [kind |-> "print", idx |-> idx, fmt |-> fmt, args |-> args]

CredentialsFmt == "Error getting OBS credentials: %v\n"
UsageFmt == "Error: %v\n"
NoFileFmt == "%s does not exist\n"
LoadErrFmt == "%v\n"
FetchErrFmt == "error getting project from OBS: %v\n"
UpsertErrFmt == "error creating/updating project on OBS: %v\n"
UpdatedFmt == "Project %s updated on OBS.\n"
UpToDateFmt == "Project %s is already up-to-date.\n"

ManifestPath == "manifest.yaml"

\* GetOBSCredentials: the error it returns (NoErr when both variables are set).
GetOBSCredentials(cfg) ==
    IF cfg = "no_username" THEN "OBS_USERNAME environment variable not set"
    ELSE IF cfg = "no_password" THEN "OBS_PASSWORD environment variable not set"
    ELSE NoErr

\* CheckManifestPath: os.Stat of the path succeeds.
CheckManifestPath(cfg) == cfg # "no_file"

\* LoadManifest: the error it returns (NoErr when the file is read and parsed).
LoadManifest(cfg) ==
    IF cfg = "unreadable" THEN "unable to read the manifest content: %v"
    ELSE IF cfg = "malformed" THEN "error unmarshalling yaml: %v"
    ELSE NoErr

\* The end of one loop iteration: the next project, or the end of Run.
NextProject ==
    /\ i' = i + 1
    /\ pc' = IF i + 1 > Len(manifest) THEN "returned" ELSE "fetching"
    /\ remotePrj' = None

Init ==
    /\ config \in Configs
    /\ manifest \in Manifests
    /\ store \in Stores
    /\ pc = "start"
    /\ i = 0
    /\ remotePrj = None
    /\ events = <<>>
    /\ cmdErr = NoErr
    /\ exitCode = None
    /\ clean = TRUE
    /\ prevRun = "none"
    /\ cmpLocal = None
    /\ cmpRemote = None
    /\ cmpPc = "unused"
    /\ different = FALSE

\* cobra: the required flag --manifest is not given; rootCmd.Execute prints
\* the error and returns it, Run is not called.
RequiredFlagMissing ==
    /\ pc = "start"
    /\ config = "no_flag"
    /\ events' = Append(events, Line(0, UsageFmt, <<"required flag(s) \"manifest\" not set">>))
    /\ cmdErr' = "required flag(s) \"manifest\" not set"
    /\ pc' = "returned"
    /\ UNCHANGED <<config, manifest, store, i, remotePrj, exitCode, clean, prevRun>>
    /\ UNCHANGED cmpVars

\* Run, lines 51-54: a credential variable is unset; log.Fatalf prints the
\* error and exits with status 1.
CredentialsMissing ==
    /\ pc = "start"
    /\ config # "no_flag"
    /\ GetOBSCredentials(config) # NoErr
    /\ events' = Append(events, Line(0, CredentialsFmt, <<GetOBSCredentials(config)>>))
    /\ pc' = "exited"
    /\ exitCode' = Some(1)
    /\ UNCHANGED <<config, manifest, store, i, remotePrj, cmdErr, clean, prevRun>>
    /\ UNCHANGED cmpVars

\* Run, lines 58-62: the manifest path does not exist; one line, return.
ManifestMissing ==
    /\ pc = "start"
    /\ config # "no_flag"
    /\ GetOBSCredentials(config) = NoErr
    /\ ~CheckManifestPath(config)
    /\ events' = Append(events, Line(0, NoFileFmt, <<ManifestPath>>))
    /\ pc' = "returned"
    /\ UNCHANGED <<config, manifest, store, i, remotePrj, cmdErr, exitCode, clean, prevRun>>
    /\ UNCHANGED cmpVars

\* Run, lines 64-68: LoadManifest fails; one line, return.
LoadFails ==
    /\ pc = "start"
    /\ config # "no_flag"
    /\ GetOBSCredentials(config) = NoErr
    /\ CheckManifestPath(config)
    /\ LoadManifest(config) # NoErr
    /\ events' = Append(events, Line(0, LoadErrFmt, <<LoadManifest(config)>>))
    /\ pc' = "returned"
    /\ UNCHANGED <<config, manifest, store, i, remotePrj, cmdErr, exitCode, clean, prevRun>>
    /\ UNCHANGED cmpVars

\* Run, lines 51-70: the configuration is complete; the loop begins.
LoadOk ==
    /\ pc = "start"
    /\ config # "no_flag"
    /\ GetOBSCredentials(config) = NoErr
    /\ CheckManifestPath(config)
    /\ LoadManifest(config) = NoErr
    /\ i' = 1
    /\ pc' = IF Len(manifest) = 0 THEN "returned" ELSE "fetching"
    /\ UNCHANGED <<config, manifest, store, remotePrj, events, cmdErr, exitCode, clean, prevRun>>
    /\ UNCHANGED cmpVars

\* Mutant: a failed fetch ends the loop (return instead of continue).
FetchErrorAborts ==
    /\ pc = "fetching"
    /\ \E err \in {NotFound, Refused} :
          /\ (err = NotFound) <=> (store[manifest[i].Name] = None)
          /\ events' = events \o <<FetchCall(i, manifest[i].Name, None, err),
                                   Line(i, FetchErrFmt, <<err>>)>>
    /\ clean' = FALSE
    /\ pc' = "returned"
    /\ UNCHANGED <<i, remotePrj>>
    /\ UNCHANGED <<config, manifest, store, cmdErr, exitCode, prevRun>>
    /\ UNCHANGED cmpVars

\* Mutant: a failed fetch falls through to the comparison with an empty
\* remote project, so that an absent project is created.
FetchErrorFallsThrough ==
    /\ pc = "fetching"
    /\ \E err \in {NotFound, Refused} :
          /\ (err = NotFound) <=> (store[manifest[i].Name] = None)
          /\ events' = events \o <<FetchCall(i, manifest[i].Name, None, err),
                                   Line(i, FetchErrFmt, <<err>>)>>
    /\ clean' = FALSE
    /\ remotePrj' = Some(Project("", "", "", "", <<>>, <<>>))
    /\ pc' = "comparing"
    /\ UNCHANGED <<config, manifest, store, i, cmdErr, exitCode, prevRun>>
    /\ UNCHANGED cmpVars

\* Loop, lines 71-75: GetProjectMetaFile fails (the project does not exist,
\* or the call cannot complete); one line with the error, next project.
FetchError ==
    /\ pc = "fetching"
    /\ \E err \in {NotFound, Refused} :
          /\ (err = NotFound) <=> (store[manifest[i].Name] = None)
          /\ events' = events \o <<FetchCall(i, manifest[i].Name, None, err),
                                   Line(i, FetchErrFmt, <<err>>)>>
    /\ clean' = FALSE
    /\ NextProject
    /\ UNCHANGED <<config, manifest, store, cmdErr, exitCode, prevRun>>
    /\ UNCHANGED cmpVars

\* Loop, line 71: GetProjectMetaFile returns the project the service holds.
FetchOk ==
    /\ pc = "fetching"
    /\ store[manifest[i].Name] # None
    /\ remotePrj' = store[manifest[i].Name]
    /\ events' = Append(events, FetchCall(i, manifest[i].Name, store[manifest[i].Name], NoErr))
    /\ pc' = "comparing"
    /\ UNCHANGED <<config, manifest, store, i, cmdErr, exitCode, clean, prevRun>>
    /\ UNCHANGED cmpVars

\* Mutant: the up-to-date branch prints nothing.
UpToDateSilent ==
    /\ pc = "comparing"
    /\ ~compareProjects(manifest[i], remotePrj[1])
    /\ NextProject
    /\ UNCHANGED <<config, manifest, store, events, cmdErr, exitCode, clean, prevRun>>
    /\ UNCHANGED cmpVars

\* Loop, lines 77, 84-86: the projects do not differ; one line, no write.
UpToDate ==
    /\ pc = "comparing"
    /\ ~compareProjects(manifest[i], remotePrj[1])
    /\ events' = Append(events, Line(i, UpToDateFmt, <<manifest[i].Name>>))
    /\ NextProject
    /\ UNCHANGED <<config, manifest, store, cmdErr, exitCode, clean, prevRun>>
    /\ UNCHANGED cmpVars

\* Mutant: the write is issued whatever the comparison says.
DivergentAlways ==
    /\ pc = "comparing"
    /\ pc' = "upserting"
    /\ UNCHANGED <<config, manifest, store, i, remotePrj, events, cmdErr, exitCode,
                   clean, prevRun>>
    /\ UNCHANGED cmpVars

\* Loop, line 77: the projects differ; CreateUpdateProject is to be called.
Divergent ==
    /\ pc = "comparing"
    /\ compareProjects(manifest[i], remotePrj[1])
    /\ pc' = "upserting"
    /\ UNCHANGED <<config, manifest, store, i, remotePrj, events, cmdErr, exitCode,
                   clean, prevRun>>
    /\ UNCHANGED cmpVars

\* Loop, lines 78, 81-83: CreateUpdateProject(&prj.Project) succeeds; the
\* service holds the local project under its name; one line.
Updated ==
    /\ pc = "upserting"
    /\ store' = [store EXCEPT ![manifest[i].Name] = Some(manifest[i])]
    /\ events' = events \o <<UpsertCall(i, manifest[i], NoErr),
                             Line(i, UpdatedFmt, <<manifest[i].Name>>)>>
    /\ NextProject
    /\ UNCHANGED <<config, manifest, cmdErr, exitCode, clean, prevRun>>
    /\ UNCHANGED cmpVars

\* Loop, lines 78-80: CreateUpdateProject fails; one line with the error.
UpsertError ==
    /\ pc = "upserting"
    /\ events' = events \o <<UpsertCall(i, manifest[i], Refused),
                             Line(i, UpsertErrFmt, <<Refused>>)>>
    /\ clean' = FALSE
    /\ NextProject
    /\ UNCHANGED <<config, manifest, store, cmdErr, exitCode, prevRun>>
    /\ UNCHANGED cmpVars

\* root.go Execute: exit status 1 when rootCmd.Execute returned an error,
\* the status of a normal return of main otherwise.
Execute ==
    /\ pc = "returned"
    /\ exitCode' = IF cmdErr # NoErr THEN Some(1) ELSE Some(0)
    /\ pc' = "exited"
    /\ UNCHANGED <<config, manifest, store, i, remotePrj, events, cmdErr, clean, prevRun>>
    /\ UNCHANGED cmpVars

\* The command is invoked again with the same configuration and manifest
\* against the remote service as the last run left it.
Rerun ==
    /\ pc = "exited"
    /\ prevRun' = IF config # "ok" \/ ~clean THEN "failed"
                   ELSE IF \E k \in DOMAIN events : events[k].kind = "upsert"
                        THEN "updated"
                        ELSE "unchanged"
    /\ pc' = "start"
    /\ i' = 0
    /\ remotePrj' = None
    /\ events' = <<>>
    /\ cmdErr' = NoErr
    /\ exitCode' = None
    /\ clean' = TRUE
    /\ UNCHANGED <<config, manifest, store>>
    /\ UNCHANGED cmpVars

\* The steps of the process itself.
Step ==
    \/ RequiredFlagMissing
    \/ CredentialsMissing
    \/ ManifestMissing
    \/ LoadFails
    \/ LoadOk
    \/ FetchError
    \/ FetchOk
    \/ UpToDate
    \/ Divergent
    \/ Updated
    \/ UpsertError
    \/ Execute

Next == Step \/ Rerun

Spec == Init /\ [][Next]_vars

\* The process is sequential and its remote calls return: a step that can
\* be taken is taken.
FairSpec == Init /\ [][Next]_vars /\ WF_vars(Step)

(***************************************************************************)
(* compareProjects on every pair of bounded projects                       *)
(***************************************************************************)
CmpInit ==
    /\ cmpLocal \in CmpLocals
    /\ cmpRemote \in CmpRemotes
    /\ cmpPc = "input"
    /\ different = FALSE
    /\ config = "ok"
    /\ manifest = <<>>
    /\ store = [n \in Names |-> None]
    /\ pc = "unused"
    /\ i = 0
    /\ remotePrj = None
    /\ events = <<>>
    /\ cmdErr = NoErr
    /\ exitCode = None
    /\ clean = TRUE
    /\ prevRun = "none"

Compare ==
    /\ cmpPc = "input"
    /\ different' = compareProjects(cmpLocal, cmpRemote)
    /\ cmpPc' = "done"
    /\ UNCHANGED <<cmpLocal, cmpRemote>>
    /\ UNCHANGED runVars

CmpNext == Compare

CmpSpec == CmpInit /\ [][CmpNext]_vars

(***************************************************************************)
(* Reading the events of a run                                             *)
(***************************************************************************)
\* The positions of the calls of one kind made for manifest entry k.
CallsOf(kind, k) == {j \in DOMAIN events : events[j].kind = kind /\ events[j].idx = k}

\* The positions of the lines printed for manifest entry k.
LinesOf(k) == CallsOf("print", k)

\* The number of manifest entries whose loop iteration is over.
Completed ==
    IF pc \in {"fetching", "comparing", "upserting"} THEN i - 1
    ELSE IF pc \in {"returned", "exited"} /\ i >= 1 THEN Len(manifest)
    ELSE 0

\* The outcome a line reports.
OutcomeOf(line) ==
    IF line.fmt = FetchErrFmt THEN "FetchError"
    ELSE IF line.fmt = UpsertErrFmt THEN "UpsertError"
    ELSE IF line.fmt = UpdatedFmt THEN "Updated"
    ELSE IF line.fmt = UpToDateFmt THEN "UpToDate"
    ELSE "none"

Terminal == {"FetchError", "UpToDate", "Updated", "UpsertError"}

\* The line carries the text among the arguments of its format.
Carries(line, text) == \E a \in DOMAIN line.args : line.args[a] = text

LoopOver == pc \in {"returned", "exited"} /\ i >= 1

\* The lines printed so far, in order.
Lines == SelectSeq(events, LAMBDA e : e.kind = "print")

\* The fetch for entry k succeeded and the comparison found no difference.
FetchedEquivalent(f) ==
    /\ events[f].kind = "fetch"
    /\ events[f].err = NoErr
    /\ ~compareProjects(manifest[events[f].idx], events[f].result[1])

(***************************************************************************)
(* C1. No-op property: when the fetch of a manifest project succeeds and   *)
(* compareProjects finds the fetched state not different, no               *)
(* CreateUpdateProject call is made or pending for that project, and once  *)
(* its iteration is over its one line is the up-to-date line.              *)
(***************************************************************************)
C1_NoOp ==
    \A f \in DOMAIN events :
        FetchedEquivalent(f) =>
            LET k == events[f].idx IN
            /\ CallsOf("upsert", k) = {}
            /\ ~(pc = "upserting" /\ i = k)
            /\ k <= Completed =>
                  /\ LinesOf(k) # {}
                  /\ \A l \in LinesOf(k) : OutcomeOf(events[l]) = "UpToDate"

C1_Witness ==
    \E f \in DOMAIN events :
        /\ FetchedEquivalent(f)
        /\ events[f].idx <= Completed
        /\ \E l \in LinesOf(events[f].idx) : OutcomeOf(events[l]) = "UpToDate"

(***************************************************************************)
(* C2. Isolation property: a run whose configuration is complete ends with *)
(* every manifest project fetched once and holding a terminal outcome,     *)
(* whatever fetches and upserts fail on the way.                           *)
(***************************************************************************)
AllTerminal ==
    /\ LoopOver
    /\ \A k \in 1..Len(manifest) :
          /\ Cardinality(CallsOf("fetch", k)) = 1
          /\ \E l \in LinesOf(k) : OutcomeOf(events[l]) \in Terminal

C2_Isolation == (config = "ok" /\ pc = "start") ~> AllTerminal

C2_Witness ==
    /\ pc = "exited"
    /\ Len(manifest) = 2
    /\ \E f \in CallsOf("fetch", 1) : events[f].err # NoErr
    /\ \E l \in LinesOf(2) : OutcomeOf(events[l]) = "UpsertError"

(***************************************************************************)
(* C3. compareProjects reports "not different" exactly when the scalar     *)
(* fields are equal and the person, repository and architecture lists     *)
(* have equal lengths and equal elements at every index; lists of          *)
(* different lengths always give "different".                              *)
(***************************************************************************)
SamePersons(l, r) ==
    /\ Len(l) = Len(r)
    /\ \A k \in 1..Len(l) : l[k].UserID = r[k].UserID /\ l[k].Role = r[k].Role

SameArchitectures(l, r) ==
    /\ Len(l) = Len(r)
    /\ \A k \in 1..Len(l) : l[k] = r[k]

SameRepositories(l, r) ==
    /\ Len(l) = Len(r)
    /\ \A k \in 1..Len(l) :
          /\ l[k].Repository = r[k].Repository
          /\ SameArchitectures(l[k].Architectures, r[k].Architectures)

Equivalent(l, r) ==
    /\ l.Name = r.Name
    /\ l.Title = r.Title
    /\ l.Description = r.Description
    /\ l.URL = r.URL
    /\ SamePersons(l.Persons, r.Persons)
    /\ SameRepositories(l.Repositories, r.Repositories)

LengthsDiffer(l, r) ==
    \/ Len(l.Persons) # Len(r.Persons)
    \/ Len(l.Repositories) # Len(r.Repositories)
    \/ \E k \in 1..Len(l.Repositories) :
          /\ k <= Len(r.Repositories)
          /\ Len(l.Repositories[k].Architectures) # Len(r.Repositories[k].Architectures)

IsPrefix(s, t) == Len(s) < Len(t) /\ \A k \in 1..Len(s) : s[k] = t[k]

C3_Equivalence ==
    cmpPc = "done" =>
        /\ (different = FALSE) <=> Equivalent(cmpLocal, cmpRemote)
        /\ LengthsDiffer(cmpLocal, cmpRemote) => different = TRUE

C3_Witness ==
    /\ cmpPc = "done"
    /\ cmpLocal.Name = cmpRemote.Name
    /\ cmpLocal.Title = cmpRemote.Title
    /\ cmpLocal.Description = cmpRemote.Description
    /\ cmpLocal.URL = cmpRemote.URL
    /\ cmpLocal.Persons = cmpRemote.Persons
    /\ cmpLocal.Repositories # <<>>
    /\ IsPrefix(cmpLocal.Repositories, cmpRemote.Repositories)
    /\ different = TRUE

(***************************************************************************)
(* C4. Order sensitivity: two projects with equal scalar fields whose      *)
(* person lists and repository lists hold the same elements, at least one  *)
(* of the two lists in another order, are reported different.              *)
(***************************************************************************)
Bijections(n) == {f \in [1..n -> 1..n] : \A a, b \in 1..n : f[a] = f[b] => a = b}

\* t holds the elements of s, possibly in another order.
IsPermutation(s, t) ==
    /\ Len(s) = Len(t)
    /\ \E f \in Bijections(Len(s)) : \A k \in 1..Len(s) : t[k] = s[f[k]]

\* t is s in another order: the same elements, and not the same sequence.
IsReordering(s, t) == IsPermutation(s, t) /\ s # t

ReorderedOnly(l, r) ==
    /\ l.Name = r.Name
    /\ l.Title = r.Title
    /\ l.Description = r.Description
    /\ l.URL = r.URL
    /\ IsPermutation(l.Persons, r.Persons)
    /\ IsPermutation(l.Repositories, r.Repositories)
    /\ IsReordering(l.Persons, r.Persons) \/ IsReordering(l.Repositories, r.Repositories)

C4_OrderSensitive ==
    (cmpPc = "done" /\ ReorderedOnly(cmpLocal, cmpRemote)) => different = TRUE

C4_Witness ==
    /\ cmpPc = "done"
    /\ ReorderedOnly(cmpLocal, cmpRemote)
    /\ IsReordering(cmpLocal.Persons, cmpRemote.Persons)
    /\ different = TRUE

(***************************************************************************)
(* C5. The exit status of a run that went through the manifest is failing  *)
(* exactly when some project ended in FetchError or UpsertError.           *)
(***************************************************************************)
SomeProjectFailed ==
    \E l \in DOMAIN events :
        /\ events[l].kind = "print"
        /\ OutcomeOf(events[l]) \in {"FetchError", "UpsertError"}

C5_ExitStatusReflectsErrors ==
    (pc = "exited" /\ config = "ok") =>
        ((exitCode = Some(1)) <=> SomeProjectFailed)

(***************************************************************************)
(* C6. Each project whose iteration is over has exactly one line, the      *)
(* lines are in manifest order, and the line of project k is printed       *)
(* before project k+1 is fetched.                                          *)
(***************************************************************************)
C6_OneLineInOrder ==
    config = "ok" =>
        /\ Len(Lines) = Completed
        /\ \A k \in 1..Len(Lines) :
              /\ Lines[k].idx = k
              /\ OutcomeOf(Lines[k]) \in Terminal
        /\ \A f \in DOMAIN events :
              (events[f].kind = "fetch" /\ events[f].idx > 1) =>
                  \E l \in LinesOf(events[f].idx - 1) : l < f

C6_Witness ==
    /\ pc = "exited"
    /\ config = "ok"
    /\ Len(manifest) = 2
    /\ Len(Lines) = 2
    /\ OutcomeOf(Lines[1]) = "UpToDate"
    /\ OutcomeOf(Lines[2]) = "Updated"

(***************************************************************************)
(* C7. Every failure line (FetchError, UpsertError) carries the name of    *)
(* its project and the text of the error the remote call returned.         *)
(***************************************************************************)
C7_FailureLinesNameProject ==
    \A l \in DOMAIN events :
        (events[l].kind = "print"
            /\ OutcomeOf(events[l]) \in {"FetchError", "UpsertError"}) =>
            /\ Carries(events[l], manifest[events[l].idx].Name)
            /\ l > 1
            /\ events[l - 1].kind \in {"fetch", "upsert"}
            /\ Carries(events[l], events[l - 1].err)

(***************************************************************************)
(* C8. A configuration error (a credential variable unset, the manifest    *)
(* missing, unreadable or malformed) is reported once, ends the run with   *)
(* a failing exit status, and no fetch and no upsert is made.              *)
(***************************************************************************)
ConfigErrors == {"no_username", "no_password", "no_file", "unreadable", "malformed"}

C8_ConfigErrorsFatal ==
    (pc = "exited" /\ config \in ConfigErrors) =>
        /\ Len(events) = 1
        /\ events[1].kind = "print"
        /\ exitCode = Some(1)

(***************************************************************************)
(* C9. Per project: at most one fetch, exactly one once its iteration is   *)
(* over; at most one upsert, only after a successful fetch whose result    *)
(* compareProjects found different, carrying the local project; a failed   *)
(* fetch (not-found included) gives FetchError and no upsert; no call for  *)
(* the project follows its outcome line, and the outcome matches the       *)
(* calls made.                                                             *)
(***************************************************************************)
C9_StateMachine ==
    /\ \A e \in DOMAIN events : events[e].idx \in 0..Len(manifest)
    /\ \A k \in 1..Len(manifest) :
          /\ Cardinality(CallsOf("fetch", k)) <= 1
          /\ Cardinality(CallsOf("upsert", k)) <= 1
          /\ Cardinality(LinesOf(k)) <= 1
          /\ (config = "ok" /\ k <= Completed) => Cardinality(CallsOf("fetch", k)) = 1
          /\ \A u \in CallsOf("upsert", k) :
                /\ events[u].project = manifest[k]
                /\ \E f \in CallsOf("fetch", k) :
                      /\ f < u
                      /\ events[f].err = NoErr
                      /\ compareProjects(manifest[k], events[f].result[1])
          /\ \A f \in CallsOf("fetch", k) :
                events[f].err # NoErr =>
                    /\ CallsOf("upsert", k) = {}
                    /\ ~(pc \in {"comparing", "upserting"} /\ i = k)
                    /\ k <= Completed =>
                          \E l \in LinesOf(k) : OutcomeOf(events[l]) = "FetchError"
          /\ \A l \in LinesOf(k) :
                /\ OutcomeOf(events[l]) \in Terminal
                /\ k <= Completed
                /\ \A c \in CallsOf("fetch", k) \cup CallsOf("upsert", k) : c < l
                /\ OutcomeOf(events[l]) = "FetchError" =>
                      \E f \in CallsOf("fetch", k) : events[f].err # NoErr
                /\ OutcomeOf(events[l]) = "UpToDate" =>
                      /\ CallsOf("upsert", k) = {}
                      /\ \E f \in CallsOf("fetch", k) : events[f].err = NoErr
                /\ OutcomeOf(events[l]) = "Updated" =>
                      \E u \in CallsOf("upsert", k) : events[u].err = NoErr
                /\ OutcomeOf(events[l]) = "UpsertError" =>
                      \E u \in CallsOf("upsert", k) : events[u].err # NoErr

C9_Witness ==
    /\ pc = "exited"
    /\ Len(manifest) = 2
    /\ \E f \in CallsOf("fetch", 1) : events[f].err = NotFound
    /\ \E l \in LinesOf(1) : OutcomeOf(events[l]) = "FetchError"
    /\ \E u \in CallsOf("upsert", 2) : events[u].project = manifest[2]
    /\ \E l \in LinesOf(2) : OutcomeOf(events[l]) = "Updated"

(***************************************************************************)
(* C10. Convergence: with pairwise distinct project names, the run that    *)
(* follows a run in which no fetch and no upsert failed issues no upsert,  *)
(* and every project it fetches is reported up-to-date; with two entries   *)
(* of one name and different content, every run whose fetches all succeed  *)
(* issues an upsert.                                                       *)
(***************************************************************************)
DistinctNames ==
    \A a, b \in DOMAIN manifest : a # b => manifest[a].Name # manifest[b].Name

ConflictingEntries ==
    \E a, b \in DOMAIN manifest :
        a # b /\ manifest[a].Name = manifest[b].Name /\ manifest[a] # manifest[b]

AllFetchesSucceeded ==
    \A k \in 1..Len(manifest) : \E f \in CallsOf("fetch", k) : events[f].err = NoErr

C10_Convergence ==
    /\ (prevRun \in {"updated", "unchanged"} /\ DistinctNames) =>
          /\ pc # "upserting"
          /\ \A e \in DOMAIN events :
                /\ events[e].kind # "upsert"
                /\ events[e].kind = "fetch" => events[e].err \in {NoErr, Refused}
                /\ events[e].kind = "print" =>
                      /\ OutcomeOf(events[e]) \in {"UpToDate", "FetchError"}
                      /\ OutcomeOf(events[e]) = "FetchError" => events[e - 1].err = Refused
    /\ (LoopOver /\ ConflictingEntries /\ AllFetchesSucceeded) =>
          \E u \in DOMAIN events : events[u].kind = "upsert"

C10_Witness ==
    /\ prevRun = "updated"
    /\ DistinctNames
    /\ pc = "exited"
    /\ Len(manifest) = 2
    /\ Len(Lines) = 2
    /\ \A k \in 1..2 : OutcomeOf(Lines[k]) = "UpToDate"

====
